---------------------------- MODULE Spec2Model ----------------------------
(***************************************************************************)
(* GenerateAndLoadData (cumulusci/tasks/bulkdata/generate_and_load_data.py) *)
(* as a state machine: one task object is constructed (_init_options) and  *)
(* run (_run_task).  The orchestrator's own code between two calls of a    *)
(* collaborator is one action; the collaborators (the staging database,    *)
(* the data generation task, LoadData) return or raise in steps of their   *)
(* own.                                                                    *)
(*                                                                         *)
(* Option values are the strings a task receives.  num_records is taken    *)
(* from the literals of the integers 0..MaxRecords, and                    *)
(* data_generation_task is taken to resolve (import_global returns).       *)
(***************************************************************************)
EXTENDS Integers, Sequences, FiniteSets, TLC

\* Largest num_records and batch_size the options are drawn from.
MaxRecords == 15
MaxBatch == 5

\* How far below zero the num_records are, where setup alone is looked at.
MaxNegative == 2

\* The largest num_records where one run is followed by another.
MaxRerunRecords == 4

-----------------------------------------------------------------------------
(* Python values *)

None == "None"

\* Truth value of an option value or a path (None and "" are false).
Truthy(v) == v \notin {None, ""}

\* dict.get(key, default)
Get(d, k, default) == IF k \in DOMAIN d THEN d[k] ELSE default

DigitVal(c) ==
    CASE c = "0" -> 0 [] c = "1" -> 1 [] c = "2" -> 2 [] c = "3" -> 3
      [] c = "4" -> 4 [] c = "5" -> 5 [] c = "6" -> 6 [] c = "7" -> 7
      [] c = "8" -> 8 [] c = "9" -> 9

RECURSIVE ParseNat(_)
ParseNat(s) ==
    IF Len(s) = 0 THEN 0
    ELSE ParseNat(SubSeq(s, 1, Len(s) - 1)) * 10
         + DigitVal(SubSeq(s, Len(s), Len(s)))

\* int(s) of a decimal literal with an optional sign.
PyInt(s) ==
    IF SubSeq(s, 1, 1) = "-" THEN 0 - ParseNat(SubSeq(s, 2, Len(s)))
    ELSE ParseNat(s)

\* str.endswith
EndsWith(s, suffix) ==
    /\ Len(s) >= Len(suffix)
    /\ SubSeq(s, Len(s) - Len(suffix) + 1, Len(s)) = suffix

-----------------------------------------------------------------------------
(* The file system and the databases *)

\* os.path.abspath / os.path.exists: the working directory holds mapping.yml.
Cwd == "/project/"
abspath(p) == Cwd \o p
DiskFiles == {abspath("mapping.yml")}
exists(p) == p \in DiskFiles

\* The directory TemporaryDirectory() makes, and the debug_dir a caller gives.
TempDirName == "/tmp/tmpdir"
DebugDirName == "/debug"

\* The database a caller names with database_url.
PersistentUrl == "postgresql://staging"

\* f"sqlite:///{Path(tempdir) / 'generated_data.db'}"
SqliteUrl(dir) == "sqlite:///" \o dir \o "/generated_data.db"

Locators == {PersistentUrl, SqliteUrl(TempDirName), SqliteUrl(DebugDirName)}

\* Rows carry the batch that made them; Pre marks rows older than the run.
Pre == 0 - 1

Table(name, n, from) == [name |-> name, n |-> n, from |-> from]

\* What a database that outlives a run may hold when the task is constructed.
PreTables ==
    { Table("Account", 2, {Pre}),
      Table("Account_sf_ids", 2, {Pre}),
      Table("sf_ids_archive", 1, {Pre}) }

InitialContents ==
    { {},
      { Table("Account", 2, {Pre}) },
      { Table("Account_sf_ids", 2, {Pre}) },
      { Table("Account_sf_ids", 2, {Pre}), Table("sf_ids_archive", 1, {Pre}) },
      PreTables }

TableNames(tables) == { t.name : t \in tables }

RECURSIVE SumRows(_)
SumRows(tables) ==
    IF tables = {} THEN 0
    ELSE LET t == CHOOSE t \in tables : TRUE
         IN  t.n + SumRows(tables \ {t})

\* Add n rows made by batch idx to table name, creating it when missing.
AppendRows(tables, name, n, idx) ==
    IF name \in TableNames(tables)
    THEN { IF t.name = name THEN Table(name, t.n + n, t.from \cup {idx}) ELSE t
           : t \in tables }
    ELSE tables \cup { Table(name, n, {idx}) }

-----------------------------------------------------------------------------
(* The task object and its run *)

VARIABLES
    options,            \* self.options: the option values the task was given
    self,               \* the fields _init_options sets
    pc,                 \* where the task is
    exc,                \* the exception the caller of the task sees, or NoExc
    raised,             \* the exception a step raised, or NoExc
    existing,           \* the databases that exist
    db,                 \* each database's tables
    db_before,          \* each database's tables when the task was constructed
    dirs,               \* the temporary directories that exist
    tempdirs_made,      \* TemporaryDirectory(): directories created
    tempdirs_removed,   \* TemporaryDirectory.__exit__: directories removed
    batch_iter,         \* what generate_batches has left to yield
    iterated,           \* the batches the loop of _run_task has taken
    cur,                \* the arguments and locals of _generate_batch
    scratch,            \* the NamedTemporaryFile objects that are open
    scratch_seq,        \* how many NamedTemporaryFile objects were made
    log,                \* the calls made to the collaborators, in order
    org,                \* what LoadData has uploaded to the org
    dropped             \* the names of the tables drop_all was given

vars == << options, self, pc, exc, raised, existing, db, db_before, dirs, tempdirs_made,
           tempdirs_removed, batch_iter, iterated, cur, scratch, scratch_seq,
           log, org, dropped >>

NoExc == [kind |-> None, step |-> None]
Exc(kind, step) == [kind |-> kind, step |-> step]

NoSelf ==
    [ mapping_file |-> None, database_url |-> None, num_records |-> 0,
      batch_size |-> 0, debug_dir |-> None ]

NoBatch ==
    [ database_url |-> None, tempdir |-> None, mapping_file |-> None,
      batch_size |-> 0, index |-> Pre, subtask_options |-> [x \in {} |-> x] ]

\* An option the caller leaves out.
Absent == "<absent>"
Opt(k, v) == IF v = Absent THEN [x \in {} |-> x] ELSE k :> v

NumRecordsLiterals == { ToString(n) : n \in 0..MaxRecords }
BatchSizeLiterals == { ToString(n) : n \in (0 - 1)..MaxBatch }

OptionBagsOf(literals) ==
    { Opt("num_records", nr) @@ Opt("batch_size", bs) @@ Opt("mapping", mp)
      @@ Opt("database_url", url) @@ Opt("replace_database", rep)
      @@ Opt("debug_dir", dbg) :
        nr \in literals,
        bs \in BatchSizeLiterals \cup {Absent},
        mp \in {Absent, "mapping.yml", "missing.yml"},
        url \in {Absent, PersistentUrl},
        rep \in {Absent, "True"},
        dbg \in {Absent, DebugDirName} }

OptionBags == OptionBagsOf(NumRecordsLiterals)

\* The database the run of a task with these options works in.
StoreOf(opts) ==
    IF Truthy(Get(opts, "database_url", None)) THEN opts["database_url"]
    ELSE IF Truthy(Get(opts, "debug_dir", None))
         THEN SqliteUrl(opts["debug_dir"])
         ELSE SqliteUrl(TempDirName)

\* A task that was constructed with one of these option bags.
InitWith(bags) ==
    /\ options \in bags
    /\ \E c \in InitialContents :
         /\ StoreOf(options) = SqliteUrl(TempDirName) => c = {}
         /\ db = [l \in Locators |-> IF l = StoreOf(options) THEN c ELSE {}]
         /\ existing = {PersistentUrl}
                       \cup (IF c # {} THEN {StoreOf(options)} ELSE {})
    /\ db_before = db
    /\ self = NoSelf
    /\ pc = "start"
    /\ exc = NoExc
    /\ raised = NoExc
    /\ dirs = {}
    /\ tempdirs_made = 0
    /\ tempdirs_removed = 0
    /\ batch_iter = << >>
    /\ iterated = << >>
    /\ cur = NoBatch
    /\ scratch = {}
    /\ scratch_seq = 0
    /\ log = << >>
    /\ org = << >>
    /\ dropped = {}

Init == InitWith(OptionBags)

-----------------------------------------------------------------------------
(* _init_options *)

\* _setup_engine: create_engine and metadata.reflect(); connecting to a
\* SQLite file that does not exist creates it, empty.
SetupEngine(url) == existing \cup {url}

\* metadata.tables after reflect()
Reflect(url) == db[url]

\* InitFields with a batch size of 1 where none is given.
InitFields_DefaultOne ==
    LET mapping_file == Get(options, "mapping", None)
        num_records == PyInt(options["num_records"])
    IN  [ mapping_file |-> IF Truthy(mapping_file) THEN abspath(mapping_file)
                           ELSE None,
          database_url |-> Get(options, "database_url", None),
          num_records |-> num_records,
          batch_size |-> IF "batch_size" \in DOMAIN options
                         THEN PyInt(options["batch_size"])
                         ELSE 1,
          debug_dir |-> Get(options, "debug_dir", None) ]

\* The fields lines 94-111 set.
InitFields ==
    LET mapping_file == Get(options, "mapping", None)
        num_records == PyInt(options["num_records"])
    IN  [ mapping_file |-> IF Truthy(mapping_file) THEN abspath(mapping_file)
                           ELSE None,
          database_url |-> Get(options, "database_url", None),
          num_records |-> num_records,
          batch_size |-> IF "batch_size" \in DOMAIN options
                         THEN PyInt(options["batch_size"])
                         ELSE num_records,
          debug_dir |-> Get(options, "debug_dir", None) ]

MappingMissing ==
    /\ Truthy(Get(options, "mapping", None))
    /\ ~exists(abspath(options["mapping"]))

\* BatchSizeInvalid that lets a batch size of zero through.
BatchSizeInvalid_Negative == InitFields.batch_size < 0

BatchSizeInvalid == InitFields.batch_size <= 0

\* DatabaseInUse with the test of replace_database the wrong way round.
DatabaseInUse_Inverted ==
    /\ Truthy(InitFields.database_url)
    /\ Cardinality(Reflect(InitFields.database_url)) # 0
    /\ Truthy(Get(options, "replace_database", None))

\* DatabaseInUse that looks at the SQLite file of debug_dir as well.
DatabaseInUse_AnyStore ==
    /\ Cardinality(Reflect(StoreOf(options))) # 0
    /\ ~Truthy(Get(options, "replace_database", None))

DatabaseInUse ==
    /\ Truthy(InitFields.database_url)
    /\ Cardinality(Reflect(InitFields.database_url)) # 0
    /\ ~Truthy(Get(options, "replace_database", None))

\* The check of _init_options that fails first, or None.
InitError ==
    IF MappingMissing THEN "mapping"
    ELSE IF BatchSizeInvalid THEN "batch_size"
    ELSE IF DatabaseInUse THEN "replace_database"
    ELSE None

InitOptions ==
    /\ pc = "start"
    /\ IF InitError # None
       THEN /\ pc' = "config_error"
            /\ exc' = Exc("TaskOptionsError", InitError)
            /\ self' = IF InitError = "mapping"
                       THEN [NoSelf EXCEPT !.mapping_file = InitFields.mapping_file]
                       ELSE [InitFields EXCEPT !.debug_dir =
                               IF InitError = "batch_size" THEN None ELSE @]
       ELSE /\ pc' = "ready"
            /\ exc' = exc
            /\ self' = InitFields
    /\ existing' = IF InitError \in {None, "replace_database"}
                      /\ Truthy(InitFields.database_url)
                   THEN SetupEngine(InitFields.database_url)
                   ELSE existing
    /\ UNCHANGED << options, db_before, raised, db, dirs, tempdirs_made, tempdirs_removed,
                    batch_iter, iterated, cur, scratch, scratch_seq, log, org,
                    dropped >>

-----------------------------------------------------------------------------
(* _run_task *)

\* cumulusci.tasks.bulkdata.utils.generate_batches: the pairs (size, index)
\* it yields for a total and a batch size: total \div size batches of the
\* batch size, then one of the remainder when there is one.
generate_batches(num_records, batch_size) ==
    LET full == num_records \div batch_size
        rest == num_records % batch_size
    IN  [ i \in 1..(full + (IF rest # 0 THEN 1 ELSE 0)) |->
            << IF i <= full THEN batch_size ELSE rest, i - 1 >> ]

\* BatchArgs with the total off by one.
BatchArgs_OffByOne == << self.num_records + 1, self.batch_size >>

\* BatchArgs with `num_records or batch_size` for the total.
BatchArgs_OrBatchSize ==
    << IF self.num_records = 0 THEN self.batch_size ELSE self.num_records,
       self.batch_size >>

\* The arguments line 126-128 gives generate_batches.
BatchArgs == << self.num_records, self.batch_size >>

\* TemporaryDirectory.__exit__: the directory goes, with the database in it.
\* TempDirRemoved that leaves the database file where it is.
TempDirRemoved_Keeps(stores) == stores

TempDirRemoved(stores) == stores \ {SqliteUrl(TempDirName)}
TempDirEmptied(tables) == [tables EXCEPT ![SqliteUrl(TempDirName)] = {}]

\* Propagate with the exception caught and dropped.
Propagate_Swallowed(e) == NoExc

\* What the caller sees of an exception a step raised: nothing catches it.
Propagate(e) == e

\* Lines 125-128: enter the with block and start the loop.
RunTask ==
    /\ pc = "ready"
    /\ dirs' = dirs \cup {TempDirName}
    /\ tempdirs_made' = tempdirs_made + 1
    /\ batch_iter' = generate_batches(BatchArgs[1], BatchArgs[2])
    /\ pc' = "loop"
    /\ UNCHANGED << options, db_before, self, exc, raised, existing, db, tempdirs_removed,
                    iterated, cur, scratch, scratch_seq, log, org, dropped >>

\* f"sqlite:///{sqlite_path}" when no database_url was given (lines 162-164).
ResolveUrl(database_url, tempdir) ==
    IF ~Truthy(database_url) THEN SqliteUrl(tempdir) ELSE database_url

\* NextBatch taken while the loader of the batch before is still running.
NextBatch_Pipelined ==
    /\ pc \in {"loop", "dataload"}
    /\ batch_iter # << >>
    /\ iterated' = Append(iterated, Head(batch_iter))
    /\ cur' = [ NoBatch EXCEPT
                  !.database_url = ResolveUrl(self.database_url, TempDirName),
                  !.tempdir = TempDirName,
                  !.mapping_file = self.mapping_file,
                  !.batch_size = Head(batch_iter)[1],
                  !.index = Head(batch_iter)[2] ]
    /\ batch_iter' = Tail(batch_iter)
    /\ pc' = "cleanup"
    /\ UNCHANGED << options, db_before, self, exc, raised, existing, db, dirs,
                    tempdirs_made, tempdirs_removed, scratch, scratch_seq, log,
                    org, dropped >>

\* Lines 126-139 and 160-164: take the next batch and call _generate_batch.
NextBatch ==
    /\ pc = "loop"
    /\ batch_iter # << >>
    /\ LET current_batch_size == Head(batch_iter)[1]
           index == Head(batch_iter)[2]
           tempdir == IF Truthy(self.debug_dir) THEN self.debug_dir
                      ELSE TempDirName
       IN  /\ iterated' = Append(iterated, Head(batch_iter))
           /\ cur' = [ NoBatch EXCEPT
                         !.database_url = ResolveUrl(self.database_url, tempdir),
                         !.tempdir = tempdir,
                         !.mapping_file = self.mapping_file,
                         !.batch_size = current_batch_size,
                         !.index = index ]
    /\ batch_iter' = Tail(batch_iter)
    /\ pc' = "cleanup"
    /\ UNCHANGED << options, db_before, self, exc, raised, existing, db, dirs,
                    tempdirs_made, tempdirs_removed, scratch, scratch_seq, log,
                    org, dropped >>

\* Lines 125-126: the loop is exhausted; leave the with block and return.
LoopExit ==
    /\ pc = "loop"
    /\ batch_iter = << >>
    /\ dirs' = dirs \ {TempDirName}
    /\ tempdirs_removed' = tempdirs_removed + 1
    /\ existing' = TempDirRemoved(existing)
    /\ db' = TempDirEmptied(db)
    /\ pc' = "done"
    /\ UNCHANGED << options, db_before, self, exc, raised, tempdirs_made, batch_iter,
                    iterated, cur, scratch, scratch_seq, log, org, dropped >>

\* Unwind that leaves the temporary directory behind.
Unwind_KeepsTempDir(e, tables) ==
    /\ raised' = e
    /\ exc' = Propagate(e)
    /\ scratch' = { f \in scratch : f.owner # cur.index }
    /\ dirs' = dirs
    /\ tempdirs_removed' = tempdirs_removed
    /\ existing' = SetupEngine(cur.database_url)
    /\ db' = tables
    /\ pc' = "raised"

\* Unwind that leaves the scratch mapping file of the batch behind.
Unwind_KeepsScratch(e, tables) ==
    /\ raised' = e
    /\ exc' = Propagate(e)
    /\ scratch' = scratch
    /\ dirs' = dirs \ {TempDirName}
    /\ tempdirs_removed' = tempdirs_removed + 1
    /\ existing' = TempDirRemoved(SetupEngine(cur.database_url))
    /\ db' = TempDirEmptied(tables)
    /\ pc' = "raised"

\* An exception leaves _generate_batch and _run_task: the with blocks release
\* the scratch file of the batch and the temporary directory on the way.
Unwind(e, tables) ==
    /\ raised' = e
    /\ exc' = Propagate(e)
    /\ scratch' = { f \in scratch : f.owner # cur.index }
    /\ dirs' = dirs \ {TempDirName}
    /\ tempdirs_removed' = tempdirs_removed + 1
    /\ existing' = TempDirRemoved(SetupEngine(cur.database_url))
    /\ db' = TempDirEmptied(tables)
    /\ pc' = "raised"

-----------------------------------------------------------------------------
(* _generate_batch *)

\* The suffix of the tables that map ids to Salesforce ids (line 201).
IdSuffix == "sf_ids"

\* TablesToDrop without the test of the name.
TablesToDrop_NoFilter(tables) == tables

\* TablesToDrop with the test of the name the wrong way round.
TablesToDrop_Inverted(tables) == { t \in tables : EndsWith(t.name, IdSuffix) }

\* TablesToDrop that finds nothing to drop.
TablesToDrop_Nothing(tables) == {}

\* tables_to_drop (lines 198-202)
TablesToDrop(tables) == { t \in tables : ~EndsWith(t.name, IdSuffix) }

LogEntry(op, ph, options_given) ==
    [ op |-> op, ph |-> ph, index |-> cur.index, options |-> options_given ]

\* Line 166 and 195-204: reflect the database and drop its object tables.
CleanupObjectTables ==
    /\ pc = "cleanup"
    /\ LET url == cur.database_url
           tables_to_drop == TablesToDrop(Reflect(url))
       IN  /\ existing' = SetupEngine(url)
           /\ db' = [db EXCEPT ![url] = @ \ tables_to_drop]
           /\ dropped' = dropped \cup TableNames(tables_to_drop)
           /\ log' = log \o << LogEntry("drop", "start", [database_url |-> url]),
                               LogEntry("drop", "end", [database_url |-> url]) >>
    /\ pc' = "prepare"
    /\ UNCHANGED << options, db_before, self, exc, raised, dirs, tempdirs_made,
                    tempdirs_removed, batch_iter, iterated, cur, scratch,
                    scratch_seq, org >>

\* Line 204: drop_all raises, having dropped some of the tables or none.
DropRaises ==
    /\ pc = "cleanup"
    /\ LET url == cur.database_url
           tables_to_drop == TablesToDrop(Reflect(url))
       IN  /\ tables_to_drop # {}
           /\ \E gone \in SUBSET tables_to_drop :
                /\ gone # tables_to_drop
                /\ dropped' = dropped \cup TableNames(gone)
                /\ Unwind(Exc("DatabaseError", "drop"),
                          [db EXCEPT ![url] = @ \ gone])
           /\ log' = log \o << LogEntry("drop", "start", [database_url |-> url]),
                               LogEntry("drop", "raise", [database_url |-> url]) >>
    /\ UNCHANGED << options, db_before, self, tempdirs_made, batch_iter, iterated, cur,
                    scratch_seq, org >>

\* SubtaskOptions that passes the total of the run as num_records.
SubtaskOptions_TotalRecords(mapping_file, database_url, batch_size, index, tempdir) ==
    [ mapping |-> mapping_file,
      reset_oids |-> FALSE,
      database_url |-> database_url,
      num_records |-> self.num_records,
      current_batch_number |-> index,
      working_directory |-> tempdir ] @@ options

\* SubtaskOptions that never passes a mapping on.
SubtaskOptions_NoMapping(mapping_file, database_url, batch_size, index, tempdir) ==
    [ mapping |-> None,
      reset_oids |-> FALSE,
      database_url |-> database_url,
      num_records |-> batch_size,
      current_batch_number |-> index,
      working_directory |-> tempdir ] @@ options

\* SubtaskOptions that asks the steps to reset the ids.
SubtaskOptions_ResetsOids(mapping_file, database_url, batch_size, index, tempdir) ==
    [ mapping |-> mapping_file,
      reset_oids |-> TRUE,
      database_url |-> database_url,
      num_records |-> batch_size,
      current_batch_number |-> index,
      working_directory |-> tempdir ] @@ options

\* subtask_options (lines 168-177): the task's options, overridden.
SubtaskOptions(mapping_file, database_url, batch_size, index, tempdir) ==
    [ mapping |-> mapping_file,
      reset_oids |-> FALSE,
      database_url |-> database_url,
      num_records |-> batch_size,
      current_batch_number |-> index,
      working_directory |-> tempdir ] @@ options

\* NamedTemporaryFile(suffix="_mapping.yml").name
ScratchName(seq) == "/tmp/tmp" \o ToString(seq) \o "_mapping.yml"

\* Lines 168-182: build the options, open the scratch file, call _datagen.
CallDatagen ==
    /\ pc = "prepare"
    /\ LET generated_mapping_file == ScratchName(scratch_seq + 1)
           subtask_options ==
               ("generate_mapping_file" :> generated_mapping_file)
               @@ SubtaskOptions(cur.mapping_file, cur.database_url,
                                 cur.batch_size, cur.index, cur.tempdir)
       IN  /\ scratch' = scratch \cup { [ name |-> generated_mapping_file,
                                          owner |-> cur.index,
                                          written |-> FALSE ] }
           /\ cur' = [cur EXCEPT !.subtask_options = subtask_options]
           /\ log' = Append(log, LogEntry("generate", "start", subtask_options))
    /\ scratch_seq' = scratch_seq + 1
    /\ pc' = "datagen"
    /\ UNCHANGED << options, db_before, self, exc, raised, existing, db, dirs,
                    tempdirs_made, tempdirs_removed, batch_iter, iterated, org,
                    dropped >>

\* The data generation task: it fills the object table of the database it
\* is given with num_records rows.
DataGenerated(tables, given, n) ==
    AppendRows(tables, "Account", n, given["current_batch_number"])

\* LoadData: it uploads the rows of the object table and appends one row for
\* each to the table of ids; n is how many rows it gets through.
RowsToLoad(tables) == SumRows({ t \in tables : t.name = "Account" })
DataLoaded(tables, given, n) ==
    AppendRows(tables, "Account" \o "_" \o IdSuffix, n,
               given["current_batch_number"])

\* AdoptMapping that hands the loader the options of the generator.
AdoptMapping_Never(subtask_options) == subtask_options

\* Lines 183-184: without a mapping, the loader is given the generated one.
AdoptMapping(subtask_options) ==
    IF ~Truthy(Get(subtask_options, "mapping", None))
    THEN [subtask_options EXCEPT
            !["mapping"] = subtask_options["generate_mapping_file"]]
    ELSE subtask_options

\* Lines 182-185: _datagen returns; adopt the mapping and call _dataload.
DatagenReturns ==
    /\ pc = "datagen"
    /\ LET given == cur.subtask_options
           url == given["database_url"]
           subtask_options == AdoptMapping(given)
       IN  /\ db' = [db EXCEPT ![url] =
                        DataGenerated(@, given, given["num_records"])]
           /\ existing' = existing \cup {url}
           /\ \E wrote \in (IF Truthy(given["mapping"]) THEN BOOLEAN
                            ELSE {TRUE}) :
                scratch' = { IF f.name = given["generate_mapping_file"]
                             THEN [f EXCEPT !.written = wrote] ELSE f
                             : f \in scratch }
           /\ cur' = [cur EXCEPT !.subtask_options = subtask_options]
           /\ log' = log \o << LogEntry("generate", "end", given),
                               LogEntry("load", "start", subtask_options) >>
    /\ pc' = "dataload"
    /\ UNCHANGED << options, db_before, self, exc, raised, dirs, tempdirs_made,
                    tempdirs_removed, batch_iter, iterated, scratch_seq, org,
                    dropped >>

\* Line 182: _datagen raises, having written some rows or none.
DatagenRaises ==
    /\ pc = "datagen"
    /\ LET given == cur.subtask_options
           url == given["database_url"]
       IN  /\ \E n \in {0, 1} :
                /\ n < given["num_records"]
                /\ Unwind(Exc("DataGenError", "generate"),
                          [db EXCEPT ![url] = IF n = 0 THEN @
                                              ELSE DataGenerated(@, given, n)])
           /\ log' = Append(log, LogEntry("generate", "raise", given))
    /\ UNCHANGED << options, db_before, self, tempdirs_made, batch_iter, iterated, cur,
                    scratch_seq, org, dropped >>

\* Line 185 and the end of the with block of line 180: _dataload returns,
\* the scratch file is closed, _generate_batch returns to the loop.
DataloadReturns ==
    /\ pc = "dataload"
    /\ LET given == cur.subtask_options
           url == given["database_url"]
           n == RowsToLoad(db[url])
       IN  /\ db' = [db EXCEPT ![url] = DataLoaded(@, given, n)]
           /\ org' = Append(org, [index |-> given["current_batch_number"],
                                  n |-> n])
           /\ log' = Append(log, LogEntry("load", "end", given))
    /\ scratch' = { f \in scratch : f.owner # cur.index }
    /\ pc' = "loop"
    /\ UNCHANGED << options, db_before, self, exc, raised, existing, dirs, tempdirs_made,
                    tempdirs_removed, batch_iter, iterated, cur, scratch_seq,
                    dropped >>

\* Line 185: _dataload raises, having loaded some rows or none.
DataloadRaises ==
    /\ pc = "dataload"
    /\ LET given == cur.subtask_options
           url == given["database_url"]
       IN  /\ \E n \in {0, 1} :
                /\ n < RowsToLoad(db[url])
                /\ Unwind(Exc("BulkDataException", "load"),
                          [db EXCEPT ![url] = IF n = 0 THEN @
                                              ELSE DataLoaded(@, given, n)])
                /\ org' = IF n = 0 THEN org
                          ELSE Append(org,
                                 [index |-> given["current_batch_number"],
                                  n |-> n])
           /\ log' = Append(log, LogEntry("load", "raise", given))
    /\ UNCHANGED << options, db_before, self, tempdirs_made, batch_iter, iterated, cur,
                    scratch_seq, dropped >>

-----------------------------------------------------------------------------
(* Specifications *)

Next ==
    \/ InitOptions
    \/ RunTask
    \/ NextBatch
    \/ LoopExit
    \/ CleanupObjectTables
    \/ DropRaises
    \/ CallDatagen
    \/ DatagenReturns
    \/ DatagenRaises
    \/ DataloadReturns
    \/ DataloadRaises

Spec == Init /\ [][Next]_vars

\* The task is constructed and run once more with the same options, on what
\* the run before it left in the databases and in debug_dir; the rows that
\* are there are now rows from before the run.
Rerun ==
    /\ pc \in {"done", "raised"}
    /\ tempdirs_made = 1
    /\ db' = [l \in Locators |-> { [t EXCEPT !.from = {Pre}] : t \in db[l] }]
    /\ db_before' = db'
    /\ self' = NoSelf
    /\ pc' = "start"
    /\ exc' = NoExc
    /\ raised' = NoExc
    /\ batch_iter' = << >>
    /\ iterated' = << >>
    /\ cur' = NoBatch
    /\ scratch' = {}
    /\ scratch_seq' = 0
    /\ log' = << >>
    /\ org' = << >>
    /\ dropped' = {}
    /\ UNCHANGED << options, existing, dirs, tempdirs_made, tempdirs_removed >>

\* Two runs with debug_dir and no database_url.
RerunBags ==
    { o \in OptionBagsOf({ ToString(n) : n \in 0..MaxRerunRecords }) :
        "debug_dir" \in DOMAIN o /\ "database_url" \notin DOMAIN o }

RerunInit == InitWith(RerunBags)

RerunNext == Next \/ Rerun

RerunSpec == RerunInit /\ [][RerunNext]_vars

\* _init_options alone, for totals below zero as well.
SetupInit ==
    InitWith(OptionBagsOf({ ToString(n) : n \in (0 - MaxNegative)..MaxRecords }))

SetupSpec == SetupInit /\ [][InitOptions]_vars

\* The steps in which nothing raises.
Progress ==
    \/ InitOptions
    \/ RunTask
    \/ NextBatch
    \/ LoopExit
    \/ CleanupObjectTables
    \/ CallDatagen
    \/ DatagenReturns
    \/ DataloadReturns

\* The task runs on one thread that is never held up, and the collaborators
\* come back from every call: a step that is due is taken, unless the run
\* ends in an exception first.
FairSpec == Spec /\ WF_vars(Progress)

-----------------------------------------------------------------------------
(* What the claims are stated in *)

\* The integers the caller's literals stand for.
OptN == CHOOSE n \in 0..MaxRecords : ToString(n) = options["num_records"]
OptB ==
    IF "batch_size" \in DOMAIN options
    THEN CHOOSE b \in (0 - 1)..MaxBatch : ToString(b) = options["batch_size"]
    ELSE OptN

RECURSIVE SumSizes(_)
SumSizes(batches) ==
    IF batches = << >> THEN 0 ELSE Head(batches)[1] + SumSizes(Tail(batches))

Running == {"loop", "cleanup", "prepare", "datagen", "dataload"}
InRun == Running \cup {"done", "raised"}
Terminal == {"done", "raised", "config_error"}

\* The rows of the tables of ids of a database.
IdRows(tables) == SumRows({ t \in tables : EndsWith(t.name, "sf_ids") })

\* The places in the log where a step was invoked, and those of one batch.
Starts(op) == { j \in 1..Len(log) : log[j].op = op /\ log[j].ph = "start" }
StartsOf(op, i) == { j \in Starts(op) : log[j].index = i }

\* The num_records the calls at these places of the log were given.
RECURSIVE SumGiven(_)
SumGiven(places) ==
    IF places = {} THEN 0
    ELSE LET j == CHOOSE j \in places : TRUE
         IN  log[j].options["num_records"] + SumGiven(places \ {j})

IsPrefix(s, t) == Len(s) <= Len(t) /\ SubSeq(t, 1, Len(s)) = s

\* Nothing of a run has happened: no batch, no call, no drop, no directory.
NothingRan ==
    /\ db = db_before
    /\ dropped = {}
    /\ log = << >>
    /\ iterated = << >>
    /\ org = << >>
    /\ scratch_seq = 0
    /\ tempdirs_made = 0

-----------------------------------------------------------------------------
(* C1: for every total N >= 0 and batch size B > 0 the batches the loop of  *)
(* _run_task takes are the canonical partition: indices 0, 1, 2, ... in     *)
(* order, every size in 1..B, every size but possibly the last equal to B,  *)
(* and, once the loop is through, sizes that sum to N, N/B batches when B   *)
(* divides N, floor(N/B) + 1 batches with a last one of N % B otherwise,    *)
(* and no batch when N = 0.                                                 *)
C1_CanonicalPartition ==
    pc \in InRun =>
        LET k == Len(iterated)
        IN  /\ OptB > 0
            /\ \A i \in 1..k : /\ iterated[i][2] = i - 1
                               /\ iterated[i][1] \in 1..OptB
            /\ \A i \in 1..(k - 1) : iterated[i][1] = OptB
            /\ pc = "done" =>
                 /\ SumSizes(iterated) = OptN
                 /\ OptN % OptB = 0 =>
                      /\ k = OptN \div OptB
                      /\ \A i \in 1..k : iterated[i][1] = OptB
                 /\ OptN % OptB # 0 =>
                      /\ k = (OptN \div OptB) + 1
                      /\ iterated[k][1] = OptN % OptB
                 /\ OptN = 0 => k = 0

\* num_records=10, batch_size=4: the batches (4,0), (4,1), (2,2).
C1_Witness ==
    /\ pc = "done"
    /\ OptN = 10
    /\ iterated = << <<4, 0>>, <<4, 1>>, <<2, 2>> >>

-----------------------------------------------------------------------------
C2_DropState ==
    /\ pc \in {"prepare", "datagen"} =>
         \A t \in db[cur.database_url] : EndsWith(t.name, "sf_ids")
    /\ \A j \in Starts("generate") :
         /\ j > 2
         /\ log[j - 1].op = "drop" /\ log[j - 1].ph = "end"
         /\ log[j - 1].index = log[j].index
         /\ log[j - 1].options.database_url = log[j].options["database_url"]
    /\ \A name \in dropped : ~EndsWith(name, "sf_ids")

C2_IdTablesStay ==
    \A l \in Locators : \A t \in db[l] :
        (EndsWith(t.name, "sf_ids") /\ l \in existing') =>
            t.name \in TableNames(db'[l])

(* C2: in every batch, batch 0 and a fresh database included, the database  *)
(* holds no table whose name does not end with "sf_ids" when the generation *)
(* step is invoked, the drop of that batch having come just before; and no  *)
(* table whose name ends with "sf_ids" is ever dropped: drop_all is never   *)
(* given one, and every such table stays for as long as its database is     *)
(* there (the transient database goes with the temporary directory).        *)
C2_DropBeforeGenerate == [](C2_DropState) /\ [][C2_IdTablesStay]_vars

\* Batch 0 on a database that held object tables and a table of ids.
C2_Witness ==
    /\ pc = "datagen"
    /\ cur.index = 0
    /\ "Account" \in dropped /\ "sf_ids_archive" \in dropped
    /\ TableNames(db[cur.database_url]) = {"Account_sf_ids"}

-----------------------------------------------------------------------------
C3_Persistent == Truthy(Get(options, "database_url", None))

C3_Final ==
    (C3_Persistent /\ pc = "done") =>
        /\ IdRows(db[PersistentUrl]) = IdRows(db_before[PersistentUrl]) + OptN
        /\ ( /\ iterated = << <<5, 0>>, <<5, 1>>, <<5, 2>> >>
             /\ IdRows(db_before[PersistentUrl]) = 0 )
           => IdRows(db[PersistentUrl]) = 15

C3_NoDecrease ==
    C3_Persistent => IdRows(db'[PersistentUrl]) >= IdRows(db[PersistentUrl])

(* C3: with a database_url, and a loader that appends one row of ids for    *)
(* each record it loads, the number of rows of ids never goes down in any   *)
(* step, and after a run that returns it is what it was before the run plus *)
(* num_records: 15 for batches of 5, 5 and 5 on a database with no ids.     *)
C3_IdRowsGrow == [](C3_Final) /\ [][C3_NoDecrease]_vars

C3_Witness ==
    /\ pc = "done"
    /\ C3_Persistent
    /\ iterated = << <<5, 0>>, <<5, 1>>, <<5, 2>> >>
    /\ IdRows(db_before[PersistentUrl]) = 0
    /\ IdRows(db[PersistentUrl]) = 15

-----------------------------------------------------------------------------
\* The three cases of the claim, read off the options and the database.
C4_BadBatchSize == OptB <= 0
C4_BadMapping ==
    "mapping" \in DOMAIN options /\ options["mapping"] = "missing.yml"
C4_BadDatabase ==
    /\ "database_url" \in DOMAIN options
    /\ db_before[options["database_url"]] # {}
    /\ "replace_database" \notin DOMAIN options

(* C4: once _init_options is over, if batch_size <= 0, or the mapping path  *)
(* does not exist, or database_url names a database with tables and         *)
(* replace_database is not set, it has raised TaskOptionsError, and nothing *)
(* of a run has happened: no table dropped, no call of the generation or    *)
(* the loading step, no batch.                                              *)
C4_SetupFailsFast ==
    (pc # "start" /\ (C4_BadBatchSize \/ C4_BadMapping \/ C4_BadDatabase)) =>
        /\ pc = "config_error"
        /\ exc.kind = "TaskOptionsError"
        /\ NothingRan

\* The database has tables, replace_database is missing, the rest is valid.
C4_Witness ==
    /\ pc = "config_error"
    /\ C4_BadDatabase /\ ~C4_BadBatchSize /\ ~C4_BadMapping
    /\ exc.kind = "TaskOptionsError"

-----------------------------------------------------------------------------
C5_Halted ==
    pc = "raised" =>
        LET k == cur.index
            last == log[Len(log)]
        IN  /\ ~ENABLED Next
            /\ last.ph = "raise" /\ last.index = k /\ last.op = raised.step
            /\ \A j \in 1..(Len(log) - 1) : log[j].ph # "raise"
            /\ \A j \in 1..Len(log) : log[j].index <= k
            /\ \A op \in {"drop", "generate", "load"} :
                 Cardinality(StartsOf(op, k)) <= 1
            /\ raised.step = "drop" =>
                 StartsOf("generate", k) = {} /\ StartsOf("load", k) = {}
            /\ raised.step = "generate" => StartsOf("load", k) = {}
            /\ raised.kind # None /\ exc = raised
            /\ \A i \in 0..(k - 1) :
                 org[i + 1] = [index |-> i, n |-> iterated[i + 1][1]]

C5_NoRollback ==
    /\ IsPrefix(org, org')
    /\ C3_Persistent => IdRows(db'[PersistentUrl]) >= IdRows(db[PersistentUrl])

(* C5: when the drop, the generation step or the loading step of batch k    *)
(* raises, the run is over: no step is taken after it, the step that failed *)
(* was invoked once, the loading step of batch k was not invoked if its     *)
(* generation step failed, no step of a batch after k was invoked, the      *)
(* caller sees the exception that was raised, and what batches before k     *)
(* loaded is still there: nothing loaded is ever taken back.                *)
C5_HaltsAtFailure == [](C5_Halted) /\ [][C5_NoRollback]_vars

\* The generation step of batch 1 raised after batch 0 was loaded.
C5_Witness ==
    /\ pc = "raised"
    /\ raised.step = "generate"
    /\ cur.index = 1
    /\ Len(org) = 1

-----------------------------------------------------------------------------
C6_OncePerBatch ==
    pc = "done" =>
        LET k == Len(iterated)
        IN  /\ Cardinality(Starts("generate")) = k
            /\ Cardinality(Starts("load")) = k
            /\ \A i \in 0..(k - 1) :
                 /\ Cardinality(StartsOf("generate", i)) = 1
                 /\ Cardinality(StartsOf("load", i)) = 1
            /\ SumGiven(Starts("generate")) = OptN
            /\ SumGiven(Starts("load")) = OptN

C6_NoRaiseIsDone == (pc \in Terminal /\ raised = NoExc /\ exc = NoExc) => pc = "done"

(* C6: if no step raises and the collaborators return, a run with total N   *)
(* and batch size B > 0 comes to its end, and it has then invoked the       *)
(* generation step and the loading step once for each batch of the          *)
(* partition, with num_records values that sum to N.                        *)
C6_RunCompletes ==
    /\ <>(pc \in Terminal)
    /\ [](C6_NoRaiseIsDone)
    /\ [](C6_OncePerBatch)

\* 7 records in batches of 3, 3 and 1.
C6_Witness ==
    /\ pc = "done"
    /\ OptN = 7 /\ OptB = 3
    /\ Cardinality(Starts("load")) = 3
    /\ SumGiven(Starts("load")) = 7

-----------------------------------------------------------------------------
\* The steps of a batch, in the order of the log.
C7_Order == << "drop", "drop", "generate", "generate", "load", "load" >>

(* C7: the log of every run is drop_0, generate_0, load_0, drop_1, ...:     *)
(* each step is over (or has raised, which ends the run) before the next    *)
(* starts, the loading step of a batch starts after its generation step is  *)
(* over, and a batch starts after the loading step of the one before is     *)
(* over; the step that is running is the last one the log has started.      *)
C7_Sequential ==
    /\ \A j \in 1..Len(log) :
         LET r == (j - 1) % Len(C7_Order)
         IN  /\ log[j].index = (j - 1) \div Len(C7_Order)
             /\ log[j].op = C7_Order[r + 1]
             /\ IF r % 2 = 0 THEN log[j].ph = "start"
                ELSE \/ log[j].ph = "end"
                     \/ log[j].ph = "raise" /\ j = Len(log) /\ pc = "raised"
    /\ pc = "datagen" <=> (log # << >> /\ log[Len(log)].op = "generate"
                                       /\ log[Len(log)].ph = "start")
    /\ pc = "dataload" <=> (log # << >> /\ log[Len(log)].op = "load"
                                        /\ log[Len(log)].ph = "start")

\* The loading step of batch 1 is running.
C7_Witness ==
    /\ pc = "dataload"
    /\ cur.index = 1
    /\ Len(log) = 11

-----------------------------------------------------------------------------
(* C8: the temporary directory is created once, before the first batch; it  *)
(* is there during every step of every batch; and it has been removed, once,*)
(* when the run has returned or raised, whichever step failed and however   *)
(* many batches ran, none included.                                         *)
C8_TempDirOnce ==
    /\ pc \in {"start", "ready", "config_error"} =>
         /\ tempdirs_made = 0 /\ tempdirs_removed = 0
         /\ log = << >> /\ iterated = << >>
    /\ pc \in Running =>
         /\ tempdirs_made = 1 /\ tempdirs_removed = 0
         /\ TempDirName \in dirs
    /\ pc \in {"done", "raised"} =>
         /\ tempdirs_made = 1 /\ tempdirs_removed = 1
         /\ TempDirName \notin dirs

\* The drop of batch 0 raised.
C8_Witness ==
    /\ pc = "raised"
    /\ raised.step = "drop"
    /\ cur.index = 0
    /\ tempdirs_removed = 1

-----------------------------------------------------------------------------
(* C9: each batch opens a scratch mapping file of its own before its        *)
(* generation step is invoked; the file is there while the generation and   *)
(* the loading step of the batch run; it is gone when the batch is over,    *)
(* returned or raised. So there is at most one at any time, none after the  *)
(* run, and no two batches are given the same one.                          *)
C9_ScratchPerBatch ==
    /\ Cardinality(scratch) <= 1
    /\ pc \in {"datagen", "dataload"} =>
         \E f \in scratch :
            /\ f.owner = cur.index
            /\ f.name = cur.subtask_options["generate_mapping_file"]
    /\ pc \notin {"datagen", "dataload"} => scratch = {}
    /\ scratch_seq = Cardinality(Starts("generate"))
    /\ \A i, j \in Starts("generate") \cup Starts("load") :
         (log[i].options["generate_mapping_file"]
            = log[j].options["generate_mapping_file"])
         <=> log[i].index = log[j].index

\* The loading step of batch 2 raised.
C9_Witness ==
    /\ pc = "raised"
    /\ raised.step = "load"
    /\ cur.index = 2
    /\ scratch_seq = 3
    /\ scratch = {}

-----------------------------------------------------------------------------
C10_Case ==
    /\ OptN = 0
    /\ "batch_size" \in DOMAIN options /\ OptB > 0
    /\ pc \notin {"start", "config_error"}

C10_Untouched ==
    C10_Case =>
        /\ pc \in {"ready", "loop", "done"}
        /\ log = << >> /\ iterated = << >> /\ org = << >>
        /\ dropped = {} /\ db = db_before
        /\ scratch_seq = 0

(* C10: a run with num_records = 0 and a batch_size > 0 has no batch: it    *)
(* comes to its end without a call of the generation or the loading step    *)
(* and without a change to the staging database; no table is dropped, also  *)
(* not in a database that was given with tables and replace_database.       *)
C10_ZeroRecords == [](C10_Untouched) /\ [](C10_Case => <>(pc = "done"))

\* A zero-record run on a database with tables, replace_database given.
C10_Witness ==
    /\ pc = "done"
    /\ OptN = 0 /\ OptB > 0
    /\ "replace_database" \in DOMAIN options
    /\ db[PersistentUrl] = PreTables

-----------------------------------------------------------------------------
\* The integers the literals stand for, totals below zero included.
C11_N ==
    CHOOSE n \in (0 - MaxNegative)..MaxRecords :
        ToString(n) = options["num_records"]
C11_B ==
    IF "batch_size" \in DOMAIN options
    THEN CHOOSE b \in (0 - 1)..MaxBatch : ToString(b) = options["batch_size"]
    ELSE C11_N

\* C11 as it was stated: a num_records of zero or less always fails setup.
C11_Original ==
    (pc # "start" /\ C11_N <= 0) =>
        /\ pc = "config_error"
        /\ exc.kind = "TaskOptionsError"

(* C11 as amended: with a num_records of zero or less, setup raises         *)
(* TaskOptionsError, before any batch, exactly when batch_size is not given *)
(* (it is then num_records) or is <= 0, or the mapping or the database      *)
(* check fails; with a batch_size > 0 and nothing else wrong it succeeds    *)
(* and keeps num_records as it is.                                          *)
C11_SetupOfNonPositive ==
    (pc # "start" /\ C11_N <= 0) =>
        /\ NothingRan
        /\ pc = "config_error" <=>
             \/ "batch_size" \notin DOMAIN options
             \/ C11_B <= 0
             \/ C4_BadMapping
             \/ C4_BadDatabase
        /\ pc = "config_error" => exc.kind = "TaskOptionsError"
        /\ pc # "config_error" =>
             /\ pc = "ready" /\ exc = NoExc
             /\ self.num_records = C11_N /\ self.batch_size = C11_B

\* A total below zero and no batch_size: the batch size check fails.
C11_Witness ==
    /\ pc = "config_error"
    /\ C11_N < 0
    /\ "batch_size" \notin DOMAIN options
    /\ exc = Exc("TaskOptionsError", "batch_size")

-----------------------------------------------------------------------------
\* The tables that are not tables of ids.
C12_ObjectTables(tables) == { t \in tables : ~EndsWith(t.name, "sf_ids") }
C12_IdTables(tables) == tables \ C12_ObjectTables(tables)

\* The object tables are those of batch i alone, of size n.
C12_OnlyBatch(tables, i, n) ==
    /\ C12_ObjectTables(tables) # {}
    /\ \A t \in C12_ObjectTables(tables) : t.from = {i} /\ t.n = n

\* While the loader of batch i runs: its rows only, and the tables of ids
\* that were there before the run are still there.
C12_WhileLoading ==
    pc = "dataload" =>
        LET tables == db[cur.database_url]
        IN  /\ C12_OnlyBatch(tables, cur.index, cur.batch_size)
            /\ Pre \notin UNION { t.from : t \in C12_ObjectTables(tables) }
            /\ TableNames(C12_IdTables(db_before[cur.database_url]))
                   \subseteq TableNames(C12_IdTables(tables))

\* After a run that returned: the table of ids and the last batch's rows.
C12_AfterRun ==
    LET tables == db[PersistentUrl]
        last == iterated[Len(iterated)]
    IN  /\ C12_OnlyBatch(tables, last[2], last[1])
        /\ "Account_sf_ids" \in TableNames(C12_IdTables(tables))

\* C12 as it was stated: the last sentence for every run that returns.
C12_Original ==
    /\ C12_WhileLoading
    /\ (pc = "done" /\ C3_Persistent) =>
          \A t \in C12_ObjectTables(db[PersistentUrl]) :
              /\ iterated # <<>>
              /\ t.from = {iterated[Len(iterated)][2]}

(* C12 as amended: whenever the loader of batch i runs, the object tables   *)
(* of the staging database hold batch i's generated rows only, nothing of   *)
(* an earlier batch or from before the run, and the tables whose name ends  *)
(* with sf_ids are kept; so after a run of at least one batch that returns, *)
(* a persistent database holds the table of ids and the last batch's        *)
(* object tables only. A run of no batches leaves what was there.           *)
C12_OnlyCurrentBatch ==
    /\ C12_WhileLoading
    /\ (pc = "done" /\ C3_Persistent /\ iterated # <<>>) => C12_AfterRun
    /\ (pc = "done" /\ C3_Persistent /\ iterated = <<>>) =>
          db[PersistentUrl] = db_before[PersistentUrl]

\* The loader of the second batch runs on a database that had tables.
C12_Witness ==
    /\ pc = "dataload"
    /\ cur.index = 1
    /\ C3_Persistent
    /\ db_before[PersistentUrl] = PreTables
    /\ C12_OnlyBatch(db[PersistentUrl], 1, cur.batch_size)

-----------------------------------------------------------------------------
C13_NoUrl == "database_url" \notin DOMAIN options
C13_NoDebug == "debug_dir" \notin DOMAIN options

\* The locators the steps of the run were given so far.
C13_Locators == { log[j].options["database_url"] : j \in 1..Len(log) }

\* The rows the loader got through in the batches that are over.
RECURSIVE C13_SumLoaded(_)
C13_SumLoaded(loads) ==
    IF loads = << >> THEN 0 ELSE Head(loads).n + C13_SumLoaded(Tail(loads))

\* What being transient says of the store of a run.
C13_Transient ==
    /\ Cardinality(C13_Locators) <= 1
    /\ pc \in {"cleanup", "prepare", "datagen", "dataload"} =>
         LET tables == db[cur.database_url]
         IN  /\ C13_Locators \subseteq {cur.database_url}
             /\ \A k \in 1..Len(org) :
                   \E t \in tables : /\ EndsWith(t.name, "sf_ids")
                                     /\ org[k].index \in t.from
             /\ IdRows(tables) >= C13_SumLoaded(org)
             /\ (pc = "cleanup" /\ cur.index = 0) => tables = {}
    /\ pc \in {"done", "raised"} =>
         /\ \A url \in C13_Locators : url \notin existing /\ db[url] = {}
         /\ SqliteUrl(TempDirName) \notin existing

\* C13 as it was stated: transient whenever no database_url is given.
C13_Original == (C13_NoUrl /\ pc \in InRun) => C13_Transient

(* C13 as amended: when the caller gives neither database_url nor           *)
(* debug_dir, the staging store is transient: every batch of the run is     *)
(* given the same locator, the file generated_data.db of the temporary      *)
(* directory, so the rows of ids of batch i are there in every later batch; *)
(* the store has no tables when batch 0 starts; and it no longer exists     *)
(* once the run has returned or raised.                                     *)
C13_TransientStore ==
    (C13_NoUrl /\ C13_NoDebug /\ pc \in InRun) =>
        /\ C13_Transient
        /\ C13_Locators \subseteq {"sqlite:////tmp/tmpdir/generated_data.db"}

\* The third batch is being loaded and the ids of the two before are there.
C13_Witness ==
    /\ C13_NoUrl /\ C13_NoDebug
    /\ pc = "dataload"
    /\ cur.index = 2
    /\ \E t \in db[cur.database_url] :
          t.name = "Account_sf_ids" /\ t.from = {0, 1}

-----------------------------------------------------------------------------
C14_Configured == Truthy(Get(options, "mapping", None))

\* What the loader is given as mapping, at every call of it so far.
C14_LoaderMapping ==
    \A j \in Starts("load") :
        LET given == log[j].options
        IN  IF C14_Configured
            THEN given["mapping"] = abspath(options["mapping"])
            ELSE /\ given["mapping"] = given["generate_mapping_file"]
                 /\ given["mapping"] = ScratchName(log[j].index + 1)

\* While the loader runs without a configured mapping, the file it is given
\* is the open scratch file of its batch, and the generator has written it.
C14_Written ==
    (pc = "dataload" /\ ~C14_Configured) =>
        \E f \in scratch :
            /\ f.name = cur.subtask_options["mapping"]
            /\ f.owner = cur.index
            /\ f.written

\* The task's own mapping_file is what _init_options made it, and every
\* generator is asked anew.
C14_NotKept ==
    /\ self.mapping_file =
          (IF C14_Configured THEN abspath(options["mapping"]) ELSE None)
    /\ pc \in {"cleanup", "prepare", "datagen", "dataload"} =>
          cur.mapping_file = self.mapping_file
    /\ \A j \in Starts("generate") :
          LET given == log[j].options
          IN  /\ given["mapping"] = self.mapping_file
              /\ given["generate_mapping_file"] = ScratchName(log[j].index + 1)
              /\ \A k \in Starts("generate") :
                    k < j => log[k].options["generate_mapping_file"]
                                # given["generate_mapping_file"]

(* C14: in every batch the loader is given as mapping the configured        *)
(* mapping file when there is one, and otherwise the scratch path of that   *)
(* batch, which the generator has written its mapping to; this holds for    *)
(* that batch only: the task's mapping_file stays unset, so the generator   *)
(* of the next batch is given no mapping again and a new scratch path to    *)
(* generate one into.                                                       *)
C14_MappingAdoptedPerBatch ==
    pc \in InRun => C14_LoaderMapping /\ C14_Written /\ C14_NotKept

\* No mapping configured; the loader of the second batch runs with the
\* second scratch path, the generator of that batch was given no mapping.
C14_Witness ==
    /\ ~C14_Configured
    /\ pc = "dataload"
    /\ cur.index = 1
    /\ cur.subtask_options["mapping"] = "/tmp/tmp2_mapping.yml"
    /\ \E j \in StartsOf("load", 0) :
          log[j].options["mapping"] = "/tmp/tmp1_mapping.yml"
    /\ \E j \in StartsOf("generate", 1) : log[j].options["mapping"] = None

-----------------------------------------------------------------------------
\* The directory and the locator of the batches, read off the options.
C15_Directory ==
    IF "debug_dir" \in DOMAIN options THEN options["debug_dir"]
    ELSE "/tmp/tmpdir"
C15_Locator ==
    IF "database_url" \in DOMAIN options THEN options["database_url"]
    ELSE "sqlite:///" \o C15_Directory \o "/generated_data.db"

C15_Overridden ==
    { "mapping", "reset_oids", "database_url", "num_records",
      "current_batch_number", "working_directory", "generate_mapping_file" }

\* The values the call at place j of the log was given are those of its batch.
C15_PerBatch(j) ==
    LET given == log[j].options
        i == log[j].index
    IN  /\ i + 1 \in 1..Len(iterated)
        /\ given["num_records"] = iterated[i + 1][1]
        /\ given["num_records"] \in 1..OptB
        /\ "batch_size" \in DOMAIN options => given["num_records"] <= OptN
        /\ given["current_batch_number"] = i
        /\ given["reset_oids"] = FALSE
        /\ given["working_directory"] = C15_Directory
        /\ given["database_url"] = C15_Locator
        /\ \E d \in StartsOf("drop", i) :
              /\ d < j
              /\ log[d].options["database_url"] = given["database_url"]
              /\ log[d + 1] = [log[d] EXCEPT !.ph = "end"]
        /\ \A k \in DOMAIN options \ C15_Overridden : given[k] = options[k]

(* C15: in every batch the generator and the loader are given the same      *)
(* values of the batch, which replace the task's own options of the same    *)
(* name: num_records is the size of the batch and not the total,            *)
(* current_batch_number its index, reset_oids false, working_directory the  *)
(* temporary directory or debug_dir, and database_url the resolved          *)
(* locator, the store whose object tables were dropped at the start of the  *)
(* batch; the other options are passed on as they are.                      *)
C15_SamePerBatchValues ==
    /\ \A j \in Starts("generate") \cup Starts("load") : C15_PerBatch(j)
    /\ \A j \in Starts("generate"), k \in Starts("load") :
          log[j].index = log[k].index =>
              \A key \in C15_Overridden \ {"mapping"} :
                  log[j].options[key] = log[k].options[key]

\* The loader of the last batch of 15 in batches of 4: 3 records, index 3,
\* in debug_dir.
C15_Witness ==
    /\ pc = "dataload"
    /\ options["num_records"] = "15"
    /\ Get(options, "batch_size", None) = "4"
    /\ "debug_dir" \in DOMAIN options /\ "database_url" \notin DOMAIN options
    /\ cur.subtask_options["num_records"] = 3
    /\ cur.subtask_options["current_batch_number"] = 3
    /\ cur.subtask_options["working_directory"] = "/debug"
    /\ cur.subtask_options["database_url"] = "sqlite:////debug/generated_data.db"
    /\ cur.subtask_options["batch_size"] = "4"

-----------------------------------------------------------------------------
\* C16 as it was stated: the generator's mapping option is never empty; it
\* is the configured file, or else a new scratch path of the batch that is
\* not the generate_mapping_file path.
C16_Original ==
    \A j \in Starts("generate") :
        LET given == log[j].options
        IN  /\ Truthy(given["mapping"])
            /\ C14_Configured => given["mapping"] = abspath(options["mapping"])
            /\ ~C14_Configured =>
                  given["mapping"] # given["generate_mapping_file"]

(* C16 as amended: in every batch the mapping option handed to the          *)
(* generator is the configured mapping file when there is one and is empty  *)
(* (None) otherwise; the one new scratch path of the batch is handed to it  *)
(* as generate_mapping_file, never as mapping.                              *)
C16_GeneratorMapping ==
    \A j \in Starts("generate") :
        LET given == log[j].options
        IN  /\ C14_Configured =>
                  /\ Truthy(given["mapping"])
                  /\ given["mapping"] = abspath(options["mapping"])
                  /\ given["mapping"] = "/project/mapping.yml"
            /\ ~C14_Configured => given["mapping"] = None
            /\ Truthy(given["generate_mapping_file"])
            /\ given["generate_mapping_file"] # given["mapping"]
            /\ given["generate_mapping_file"] = ScratchName(log[j].index + 1)

\* A generator at work that was given no mapping, only the scratch path.
C16_Witness ==
    /\ pc = "datagen"
    /\ ~C14_Configured
    /\ cur.subtask_options["mapping"] = None
    /\ cur.subtask_options["generate_mapping_file"] = "/tmp/tmp1_mapping.yml"

-----------------------------------------------------------------------------
C17_Case == OptN = 0 /\ "batch_size" \notin DOMAIN options

\* Setup of a total of 0 with no batch_size: the batch size is 0 and the
\* check of it raises, unless the check of the mapping did before it.
C17_SetupFails ==
    (C17_Case /\ pc # "start") =>
        /\ InitFields.batch_size = 0
        /\ BatchSizeInvalid
        /\ pc = "config_error"
        /\ exc.kind = "TaskOptionsError"
        /\ exc.step = (IF C4_BadMapping THEN "mapping" ELSE "batch_size")
        /\ NothingRan

(* C17: when num_records is 0 and batch_size is not given, batch_size is    *)
(* num_records, so 0, and setup fails with the TaskOptionsError of a batch  *)
(* size that is not positive, and there is no run of zero batches; a run of *)
(* zero records is reached only with a batch_size that is given and > 0.    *)
C17_ZeroNeedsBatchSize ==
    /\ C17_SetupFails
    /\ (OptN = 0 /\ pc \in InRun) =>
          /\ "batch_size" \in DOMAIN options
          /\ OptB > 0
          /\ self.batch_size = OptB

\* The setup of {num_records: "0"} has failed at the batch size.
C17_Witness ==
    /\ options["num_records"] = "0"
    /\ "batch_size" \notin DOMAIN options
    /\ pc = "config_error"
    /\ exc = Exc("TaskOptionsError", "batch_size")
    /\ NothingRan

-----------------------------------------------------------------------------
C18_Store == "sqlite:////debug/generated_data.db"

\* The run is the one that follows another.
C18_LaterRun ==
    \/ tempdirs_made = 2
    \/ tempdirs_made = 1 /\ pc \in {"start", "ready", "config_error"}

\* The store is the file of debug_dir and not one of the temporary directory.
C18_FixedFile ==
    /\ C18_Store = SqliteUrl(options["debug_dir"])
    /\ \A j \in 1..Len(log) : log[j].options["database_url"] = C18_Store
    /\ SqliteUrl(TempDirName) \notin existing
    /\ db[SqliteUrl(TempDirName)] = {}

\* After a run that got as far as a batch, the file is there.
C18_StillThere ==
    (pc \in {"done", "raised"} /\ iterated # << >>) =>
        /\ C18_Store \in existing
        /\ pc = "done" =>
              /\ TableNames(db[C18_Store]) = {"Account", "Account_sf_ids"}
              /\ IdRows(db[C18_Store]) = IdRows(db_before[C18_Store]) + OptN

\* The later run, on a store that the run before left with tables in it.
C18_Later ==
    (C18_LaterRun /\ db_before[C18_Store] # {}) =>
        LET before == db_before[C18_Store]
            tables == db[C18_Store]
        IN  /\ exc.step # "replace_database"
            /\ pc = "config_error" => (C4_BadMapping \/ OptB <= 0)
            /\ (pc = "prepare" /\ cur.index = 0) =>
                  /\ tables = C12_IdTables(before)
                  /\ dropped = TableNames(C12_ObjectTables(before))
            /\ pc \in InRun =>
                  \A t \in C12_IdTables(before) :
                      \E u \in tables : /\ u.name = t.name
                                        /\ Pre \in u.from
                                        /\ u.n >= t.n

\* The end of a run and the start of the next leave the file as it is, and
\* the file is never removed.
C18_Kept ==
    /\ C18_Store \in existing => C18_Store \in existing'
    /\ (pc = "loop" /\ pc' = "done") => db'[C18_Store] = db[C18_Store]
    /\ (pc \in {"done", "raised"} /\ pc' = "start") =>
          /\ TableNames(db'[C18_Store]) = TableNames(db[C18_Store])
          /\ IdRows(db'[C18_Store]) = IdRows(db[C18_Store])
          /\ (pc = "done" /\ iterated # << >>) => db_before'[C18_Store] # {}

(* C18: with debug_dir and no database_url the staging store is the file    *)
(* generated_data.db of debug_dir and not of the temporary directory: it is *)
(* still there after the run has returned or raised, and a later run with   *)
(* the same debug_dir finds the tables in it, passes setup with or without  *)
(* replace_database, drops the object tables at batch 0 and keeps the rows  *)
(* of ids of the earlier run.                                               *)
C18_DebugStorePersists ==
    /\ [](C18_FixedFile /\ C18_StillThere /\ C18_Later)
    /\ [][C18_Kept]_vars

\* A later run without replace_database, after the drop of its batch 0: the
\* object table of the earlier run is gone, its rows of ids are there.
C18_Witness ==
    /\ tempdirs_made = 2
    /\ "replace_database" \notin DOMAIN options
    /\ pc = "prepare" /\ cur.index = 0
    /\ \E t \in db_before[C18_Store] : t.name = "Account"
    /\ dropped = {"Account"}
    /\ db[C18_Store] = {Table("Account_sf_ids", 4, {Pre})}

=============================================================================
